---- MODULE Spec2Model ----
(***************************************************************************)
(* Model of cloudinit/config/cc_ansible.py: handle, validate_config,       *)
(* the two installers (AnsiblePullPip, AnsiblePullDistro), filter_args,    *)
(* run_ansible_pull, ansible_galaxy and ansible_controller.                *)
(*                                                                         *)
(* Python values are tagged pairs <<tag, payload>>; a dict is the ordered  *)
(* sequence of its <<key, value>> items; a key is the sequence of its      *)
(* words and separators, so that key.replace("_", "-") is computed.        *)
(***************************************************************************)
EXTENDS Integers, Sequences, FiniteSets, TLC

(* ------------------------------ bounds -------------------------------- *)
MaxNames == 2
MaxPullItems == 2
MaxActions == 2
MaxRepos == 1
MaxRuns == 2

MaxOptions == 3

(* --------------------------- Python values ---------------------------- *)
None == <<"none", "None">>
True == <<"bool", "True">>
False == <<"bool", "False">>
Str(s) == <<"str", s>>
IntV(s) == <<"int", s>>
List(l) == <<"list", l>>
Dict(d) == <<"dict", d>>

Tag(v) == v[1]
Payload(v) == v[2]

\* bool(value)
Truthy(v) ==
  CASE Tag(v) = "none" -> FALSE
    [] Tag(v) = "bool" -> v = True
    [] Tag(v) = "str" -> Payload(v) # ""
    [] Tag(v) = "int" -> Payload(v) # "0"
    [] OTHER -> Len(Payload(v)) > 0

\* str(value), as an f-string formats it
StrOf(v) ==
  IF Tag(v) \in {"list", "dict"} THEN "<repr>" ELSE Payload(v)

isinstance(v, t) == Tag(v) = t

(* ------------------------------- dicts -------------------------------- *)
Has(d, k) == \E i \in DOMAIN d : d[i][1] = k

IndexOf(d, k) == CHOOSE i \in DOMAIN d : d[i][1] = k

\* d.get(k, default)
Get(d, k, default) == IF Has(d, k) THEN d[IndexOf(d, k)][2] ELSE default

\* d after d.pop(k, None)
Pop(d, k) ==
  IF Has(d, k)
  THEN LET n == IndexOf(d, k)
       IN [i \in 1..(Len(d) - 1) |-> IF i < n THEN d[i] ELSE d[i + 1]]
  ELSE d

\* d after d[k] = v
Put(d, k, v) ==
  IF Has(d, k)
  THEN [d EXCEPT ![IndexOf(d, k)] = <<k, v>>]
  ELSE Append(d, <<k, v>>)

\* get_cfg_by_path(cfg, key) for a one-segment path
get_cfg_by_path(cfg, key) == Get(cfg, key, None)

(* -------------------------------- keys -------------------------------- *)
K_install_method == <<"install", "_", "method">>
K_package_name == <<"package", "_", "name">>
K_run_user == <<"run", "_", "user">>
K_ansible_config == <<"ansible", "_", "config">>
K_galaxy == <<"galaxy">>
K_pull == <<"pull">>
K_setup_controller == <<"setup", "_", "controller">>
K_actions == <<"actions">>
K_url == <<"url">>
K_playbook_name == <<"playbook", "_", "name">>
K_playbook_names == <<"playbook", "_", "names">>
K_playbook_dir == <<"playbook", "_", "dir">>
K_diff == <<"diff">>
K_repositories == <<"repositories">>
K_run_ansible == <<"run", "_", "ansible">>
K_source == <<"source">>
K_path == <<"path">>

(* ------------------------------- errors ------------------------------- *)
NoErr == [kind |-> "none", msg |-> <<>>]

Raise(k, m) == [kind |-> k, msg |-> m]

Repr == "<repr>"

(* --------------------------- validate_config -------------------------- *)
\* mutant: package_name is not required
RequiredKeys_NoPackageName == <<K_install_method>>

\* lines 219-221: the required keys, in order
RequiredKeys == <<K_install_method, K_package_name>>

RequiredKeyError(cfg) ==
  IF \E i \in DOMAIN RequiredKeys : ~Truthy(get_cfg_by_path(cfg, RequiredKeys[i]))
  THEN LET i == CHOOSE j \in DOMAIN RequiredKeys :
                  /\ ~Truthy(get_cfg_by_path(cfg, RequiredKeys[j]))
                  /\ \A l \in 1..(j - 1) : Truthy(get_cfg_by_path(cfg, RequiredKeys[l]))
       IN Raise("MissingRequiredKey",
                <<"Missing required key '">> \o RequiredKeys[i] \o <<"' from ", Repr>>)
  ELSE NoErr

\* mutant: the mutual exclusion of lines 245-250 is not checked
PullItemError_NoExclusive(p_cfg) ==
  IF ~isinstance(p_cfg, "dict")
  THEN Raise("PullItemNotDict",
             <<"Invalid value of ansible.pull. Expected dict but found ", Repr>>)
  ELSE LET d == Payload(p_cfg)
       IN IF ~Truthy(get_cfg_by_path(d, K_url))
          THEN Raise("MissingUrl",
                     <<"Missing required key '">> \o K_url \o <<"' from ", Repr>>)
          ELSE IF ~(\/ Truthy(get_cfg_by_path(d, K_playbook_name))
                    \/ Truthy(get_cfg_by_path(d, K_playbook_names)))
          THEN Raise("MissingPlaybookNames",
                     <<"Missing required key '">> \o K_playbook_names
                        \o <<"' from ", Repr>>)
          ELSE NoErr

\* lines 232-250: the checks of one element of the pull list
PullItemError(p_cfg) ==
  IF ~isinstance(p_cfg, "dict")
  THEN Raise("PullItemNotDict",
             <<"Invalid value of ansible.pull. Expected dict but found ", Repr>>)
  ELSE LET d == Payload(p_cfg)
           has_playbook == Truthy(get_cfg_by_path(d, K_playbook_name))
           has_playbooks == Truthy(get_cfg_by_path(d, K_playbook_names))
       IN IF ~Truthy(get_cfg_by_path(d, K_url))
          THEN Raise("MissingUrl",
                     <<"Missing required key '">> \o K_url \o <<"' from ", Repr>>)
          ELSE IF ~(has_playbook \/ has_playbooks)
          THEN Raise("MissingPlaybookNames",
                     <<"Missing required key '">> \o K_playbook_names
                        \o <<"' from ", Repr>>)
          ELSE IF has_playbooks /\ has_playbook
          THEN Raise("MutuallyExclusive",
                     <<"Key 'ansible.pull.playbook_name' and",
                       " 'ansible.pull.playbook_names' are mutually exclusive.",
                       " Please use 'playbook_names' in ", Repr>>)
          ELSE NoErr

\* lines 224-225 and 205-206: a single mapping becomes a one-element list
NormalizePull(pull_cfg) ==
  IF isinstance(pull_cfg, "dict") THEN <<pull_cfg>> ELSE Payload(pull_cfg)

\* lines 222-250
PullError(cfg) ==
  LET pull_cfg == Get(cfg, K_pull, None)
  IN IF ~Truthy(pull_cfg) THEN NoErr
     ELSE IF ~isinstance(pull_cfg, "dict") /\ ~isinstance(pull_cfg, "list")
     THEN Raise("PullNotDictOrList",
                <<"Invalid value ansible.pull. Expected either dict of list of",
                  " dicts but found ", Repr>>)
     ELSE LET items == NormalizePull(pull_cfg)
          IN IF \E i \in DOMAIN items : PullItemError(items[i]) # NoErr
             THEN PullItemError(items[CHOOSE i \in DOMAIN items :
                      /\ PullItemError(items[i]) # NoErr
                      /\ \A j \in 1..(i - 1) : PullItemError(items[j]) = NoErr])
             ELSE NoErr

\* lines 252-260
ControllerError(cfg) ==
  LET controller_cfg == Get(cfg, K_setup_controller, None)
  IN IF Truthy(controller_cfg)
        /\ ~(\/ Truthy(Get(Payload(controller_cfg), K_repositories, None))
             \/ Truthy(Get(Payload(controller_cfg), K_run_ansible, None)))
     THEN Raise("MissingControllerKey", <<"Missing required key from ", Repr>>)
     ELSE NoErr

\* lines 262-264: the message is a plain string, not an f-string
InstallMethodError(cfg) ==
  LET install == Get(cfg, K_install_method, None)
  IN IF install \notin {Str("pip"), Str("distro")}
     THEN Raise("InvalidInstallMethod", <<"Invalid install method {install}">>)
     ELSE NoErr

\* mutant: the value of install_method is checked right after the required keys
ValidationOrder_MethodFirst(cfg) ==
  <<RequiredKeyError(cfg), InstallMethodError(cfg), PullError(cfg),
    ControllerError(cfg)>>

\* the checks of validate_config in the order the code makes them
ValidationOrder(cfg) ==
  <<RequiredKeyError(cfg), PullError(cfg), ControllerError(cfg),
    InstallMethodError(cfg)>>

FirstError(errs) ==
  IF \E i \in DOMAIN errs : errs[i] # NoErr
  THEN errs[CHOOSE i \in DOMAIN errs :
              errs[i] # NoErr /\ \A j \in 1..(i - 1) : errs[j] = NoErr]
  ELSE NoErr

validate_config(cfg) == FirstError(ValidationOrder(cfg))

(* ------------------------------ versions ------------------------------ *)
\* lifecycle.Version(2, 7, 0), line 284, and lifecycle.Version(2, 12, 0), line 295
DiffMinVersion == <<2, 7, 0>>
MultiPlaybookMinVersion == <<2, 12, 0>>

\* the order of lifecycle.Version: major, then minor, then patch
VersionLT(a, b) ==
  \/ a[1] < b[1]
  \/ a[1] = b[1] /\ a[2] < b[2]
  \/ a[1] = b[1] /\ a[2] = b[2] /\ a[3] < b[3]

VersionGE(a, b) == ~VersionLT(a, b)

\* int(s) for the decimal numerals that occur
ToInt(s) ==
  CASE s = "0" -> 0 [] s = "1" -> 1 [] s = "2" -> 2 [] s = "3" -> 3
    [] s = "6" -> 6 [] s = "7" -> 7 [] s = "9" -> 9 [] s = "11" -> 11
    [] s = "12" -> 12 [] s = "13" -> 13

\* lifecycle.Version.from_str: split on "." and convert each part
from_str(numeral) ==
  [n \in 1..((Len(numeral) + 1) \div 2) |-> ToInt(numeral[2 * n - 1])]

\* a line of output is a sequence of tokens: text, or a dotted numeral
Text(s) == <<"text", <<s>>>>
Num(a, b, c) == <<"num", <<a, ".", b, ".", c>>>>

\* lines 45-50: re.search(r"([\d\.]+)", first_line) and from_str; None when no match
NoVersion == <<>>

ParseVersion(first_line) ==
  IF \E n \in DOMAIN first_line : Tag(first_line[n]) = "num"
  THEN from_str(Payload(first_line[CHOOSE n \in DOMAIN first_line :
                  /\ Tag(first_line[n]) = "num"
                  /\ \A m \in 1..(n - 1) : Tag(first_line[m]) # "num"]))
  ELSE NoVersion

\* what `ansible-pull --version` may print: its lines
VersionOutputs ==
  { <<>>,
    << <<Text("ansible-pull")>> >>,
    << <<Text("ansible-pull "), Num("1", "13", "0")>> >>,
    << <<Text("ansible-pull "), Num("2", "6", "9")>> >>,
    << <<Text("ansible-pull "), Num("2", "7", "0")>> >>,
    << <<Text("ansible-pull [core "), Num("2", "11", "9"), Text("]")>>,
       <<Text("  python version = "), Num("3", "9", "2")>> >>,
    << <<Text("ansible-pull [core "), Num("2", "12", "0"), Text("]")>> >>,
    << <<Text("ansible-pull [core "), Num("3", "0", "1"), Text("]")>> >> }

(* --------------------------- configurations --------------------------- *)
\* zero or one item of a dict
Opt(k, vals) == {<<>>} \cup { << <<k, v>> >> : v \in vals }

Url == Str("https://x")
PlaybookNames == <<"a.yml", "b.yml", "c.yml", "d.yml">>
NameList(k) == List([n \in 1..k |-> Str(PlaybookNames[n])])

\* pull items given as a single mapping
SinglePullItems ==
  { << <<K_url, Url>>, <<K_playbook_names, NameList(k)>> >> : k \in 1..MaxNames }
  \cup
  { << <<K_url, Url>>, <<K_playbook_name, Str("a.yml")>> >>,
    << <<K_url, Url>>, <<K_playbook_name, Str("a.yml")>>,
       <<K_playbook_names, NameList(0)>> >>,
    << <<K_url, Url>>, <<K_playbook_name, Str("a.yml")>>,
       <<K_playbook_names, NameList(MaxNames)>> >>,
    << <<K_url, Url>> >>,
    << <<K_url, Url>>, <<K_playbook_name, Str("")>>,
       <<K_playbook_names, NameList(0)>> >>,
    << <<K_playbook_name, Str("a.yml")>> >>,
    << <<<<"become">>, True>>, <<K_diff, False>>, <<K_url, Url>>,
       <<<<"limit">>, Str("host1")>>, <<K_playbook_names, NameList(MaxNames)>> >>,
    << <<K_url, Url>>, <<K_playbook_name, Str("a.yml")>>, <<K_diff, True>>,
       <<<<"accept", "_", "host", "_", "key">>, True>> >> }

\* elements of a pull list
ListPullItems ==
  { Dict(<< <<K_url, Url>>, <<K_playbook_names, NameList(MaxNames)>> >>),
    Dict(<< <<K_diff, True>>, <<K_url, Url>>, <<K_playbook_name, Str("b.yml")>> >>),
    Dict(<< <<K_url, Url>>, <<K_playbook_name, Str("a.yml")>>,
            <<K_playbook_names, NameList(1)>> >>),
    Str("x") }

RECURSIVE SeqsUpTo(_, _)
SeqsUpTo(S, n) ==
  IF n = 0 THEN {<<>>}
  ELSE LET R == SeqsUpTo(S, n - 1)
       IN R \cup { Append(r, x) : r \in { q \in R : Len(q) = n - 1 }, x \in S }

PullValues ==
  { Dict(d) : d \in SinglePullItems }
  \cup { List(l) : l \in SeqsUpTo(ListPullItems, MaxPullItems) }
  \cup { Str("x") }

Repository(n) == Dict(<< <<K_source, Str("https://repo")>>, <<K_path, Str("/repo")>> >>)

RunSpecs ==
  << Dict(<< <<K_playbook_dir, Str("/repo")>>, <<K_playbook_name, Str("a.yml")>>,
             <<<<"become">>, True>> >>),
     Dict(<< <<<<"check">>, False>>, <<K_playbook_name, Str("b.yml")>>,
             <<<<"timeout">>, IntV("120")>>, <<K_playbook_dir, Str("/repo")>>,
             <<<<"private", "_", "key">>, Str("/k")>> >>),
     Dict(<< <<K_playbook_dir, Str("/repo")>>, <<K_playbook_name, Str("c.yml")>> >>) >>

ControllerValues ==
  { Dict(<<>>), Dict(<< <<<<"other">>, Str("x")>> >>) }
  \cup { Dict(r \o a) :
           r \in Opt(K_repositories, { List([n \in 1..k |-> Repository(n)]) : k \in 0..MaxRepos }),
           a \in Opt(K_run_ansible, { List([n \in 1..k |-> RunSpecs[n]]) : k \in 0..MaxRuns }) }

GalaxyCommand(n) == List(<<Str("ansible-galaxy"), Str("install"), Str(PlaybookNames[n])>>)

GalaxyValues ==
  { Dict(<<>>) }
  \cup { Dict(<< <<K_actions, List([n \in 1..k |-> GalaxyCommand(n)])>> >>) : k \in 0..MaxActions }

InstallMethods == {Str(""), Str("pip"), Str("distro"), Str("apt")}

\* the shapes of setup_controller that validate_config tells apart
ControllerShapes ==
  { Dict(<<>>),
    Dict(<< <<<<"other">>, Str("x")>> >>),
    Dict(<< <<K_repositories, List(<<>>)>> >>),
    Dict(<< <<K_run_ansible, List(<<RunSpecs[1]>>)>> >>) }

\* configurations that exercise validate_config: every shape of the sections
ValidationConfigs ==
  { im \o pn \o p \o sc :
      im \in Opt(K_install_method, InstallMethods),
      pn \in Opt(K_package_name, {Str("ansible")}),
      p \in Opt(K_pull, PullValues),
      sc \in Opt(K_setup_controller, ControllerShapes) }

\* configurations that exercise the controller section
ControllerConfigs ==
  { << <<K_install_method, Str(m)>>, <<K_package_name, Str("ansible")>>,
       <<K_setup_controller, sc>> >> :
      m \in {"pip", "distro"}, sc \in ControllerValues }

\* configurations that exercise the workflow: users, overrides and galaxy
WorkflowConfigs ==
  { im \o pn \o ru \o ac \o g \o p \o sc :
      im \in { << <<K_install_method, Str(m)>> >> : m \in {"pip", "distro"} },
      pn \in { << <<K_package_name, Str("ansible")>> >> },
      ru \in Opt(K_run_user, {Str("ansible")}),
      ac \in Opt(K_ansible_config, {Str("/etc/ansible.cfg")}),
      g \in Opt(K_galaxy, GalaxyValues),
      p \in Opt(K_pull, { Dict(<< <<K_url, Url>>, <<K_playbook_names, NameList(MaxNames)>> >>) }),
      sc \in Opt(K_setup_controller,
                 { Dict(<< <<K_repositories, List(<<Repository(1)>>)>>,
                           <<K_run_ansible, List(<<RunSpecs[1]>>)>> >>) }) }

\* a configuration as a handle call that ran its run-spec leaves it
ReturnedConfigs ==
  { << <<K_install_method, Str("distro")>>, <<K_package_name, Str("ansible")>>,
       <<K_setup_controller,
         Dict(<< <<K_run_ansible, List(<<Dict(<< <<<<"become">>, True>> >>)>>)>> >>)>> >> }

Configs ==
  ValidationConfigs \cup ControllerConfigs \cup WorkflowConfigs \cup ReturnedConfigs \cup { << <<K_run_user, Str("ansible")>> >> }

(* ------------------------ command-line rendering ---------------------- *)
\* key.replace("_", "-")
Hyphenate(key) == [n \in DOMAIN key |-> IF key[n] = "_" THEN "-" ELSE key[n]]

\* the `if value is not False` of the comprehension, line 272
Kept(value) == value # False

\* lines 267-273: a dict comprehension, so a key produced twice keeps its first
\* position and takes the last value
filter_args(cfg) ==
  LET F[n \in 0..Len(cfg)] ==
        IF n = 0 THEN <<>>
        ELSE IF Kept(cfg[n][2])
             THEN Put(F[n - 1], Hyphenate(cfg[n][1]), cfg[n][2])
             ELSE F[n - 1]
  IN F[Len(cfg)]

\* f"--{key}={value}" and f"--{key}"
LongFlag(key, value) == <<"--">> \o key \o <<"=", StrOf(value)>>
BareFlag(key) == <<"--">> \o key

\* mutant: every kept option is rendered with its value
PullFlag_AlwaysValue(key, value) == LongFlag(key, value)

\* line 292: one element of pull_args
PullFlag(key, value) ==
  IF value # True THEN LongFlag(key, value) ELSE BareFlag(key)

\* lines 291-294
PullArgs(cfg) ==
  LET fa == filter_args(cfg)
  IN [n \in DOMAIN fa |-> PullFlag(fa[n][1], fa[n][2])]

\* line 329: one element of the flags of ansible-playbook
ControllerFlag(key, value) == LongFlag(key, value)

ControllerArgs(args) ==
  LET fa == filter_args(args)
  IN [n \in DOMAIN fa |-> ControllerFlag(fa[n][1], fa[n][2])]

\* a word of a command line
Word(s) == <<s>>
Words(l) == [n \in DOMAIN l |-> Word(Payload(l[n]))]

(* ------------------------------ commands ------------------------------ *)
\* an external command with its outcome: ok is its exit status, out what the
\* caller made of its output (the parsed version of a version query)
Command(kind, argv, user, cwd, ok, out) ==
  [kind |-> kind, argv |-> argv, user |-> user, cwd |-> cwd, ok |-> ok, out |-> out]

\* lines 113-127: the pip install command line
PipBase(ext, user) ==
  <<Word("python"), Word("-m"), Word("pip"), Word("install")>>
    \o (IF ext THEN <<Word("--break-system-packages")>> ELSE <<>>)
    \o (IF Truthy(user) THEN <<Word("--user")>> ELSE <<>>)

\* lines 152-155
PipListCmd(user) ==
  <<Word("python"), Word("-m"), Word("pip"), Word("list")>>
    \o (IF Truthy(user) THEN <<Word("--user")>> ELSE <<>>)

(* ------------------------------- state -------------------------------- *)
VARIABLES
  cfg,        \* the ansible configuration given to handle
  cfg0,       \* the configuration as it was when handle was called
  pc,         \* position in handle
  err,        \* the exception handle raised, or NoErr
  cmds,       \* the external commands issued so far, in order
  installer,  \* "none", "pip" or "distro": the installer constructed
  run_user,   \* the installer's run_user
  env,        \* the installer's environment map
  installed,  \* whether the tool is present on the system
  i,          \* index in the section being run
  j,          \* index in playbook_names
  item,       \* run_ansible_pull's copy of the pull item, names popped
  names,      \* run_ansible_pull's playbook_names
  version     \* run_ansible_pull's v

vars == <<cfg, cfg0, pc, err, cmds, installer, run_user, env, installed,
          i, j, item, names, version>>

Init ==
  /\ cfg \in Configs
  /\ cfg0 = cfg
  /\ installed \in BOOLEAN
  /\ pc = "start"
  /\ err = NoErr
  /\ cmds = <<>>
  /\ installer = "none"
  /\ run_user = None
  /\ env = <<>>
  /\ i = 0
  /\ j = 0
  /\ item = <<>>
  /\ names = <<>>
  /\ version = <<>>

\* handle's reads of its configuration, lines 177-183
ansible_user == Get(cfg, K_run_user, None)
install_method == Get(cfg, K_install_method, None)
setup_controller == Get(cfg, K_setup_controller, None)
galaxy_cfg == Get(cfg, K_galaxy, None)
pull_cfg == Get(cfg, K_pull, None)
package_name == Get(cfg, K_package_name, Str(""))

\* an exception leaves handle
Raises(e) == err' = e /\ pc' = "raised"

\* control moves on, no exception
Goto(l) == pc' = l /\ err' = err

ProcessExecutionError ==
  Raise("ProcessExecutionError", <<"Unexpected error while running command.">>)

\* do_as, lines 60-63: the command runs as run_user when one is set
Issue(kind, argv, cwd, ok, out) ==
  cmds' = Append(cmds, Command(kind, argv, run_user, cwd, ok, out))

\* subp.which and distro.install_packages do not go through do_as
IssueDirect(kind, argv, ok) ==
  cmds' = Append(cmds, Command(kind, argv, None, None, ok, <<>>))

(* ------------------------------- handle ------------------------------- *)
\* line 185: an empty configuration is a no-op
HandleEmpty ==
  /\ pc = "start"
  /\ ~Truthy(Dict(cfg))
  /\ pc' = "done"
  /\ UNCHANGED <<cfg, cfg0, err, cmds, installer, run_user, env, installed,
                 i, j, item, names, version>>

\* lines 185-187
Validate ==
  /\ pc = "start"
  /\ Truthy(Dict(cfg))
  /\ err' = validate_config(cfg)
  /\ pc' = IF err' = NoErr THEN "construct" ELSE "raised"
  /\ UNCHANGED <<cfg, cfg0, cmds, installer, run_user, env, installed,
                 i, j, item, names, version>>

\* AnsiblePull.__init__, lines 36-41
InitialEnv == << <<<<"HOME">>, Str("/root")>> >>

\* lines 192-193 and AnsiblePullDistro.__init__
ConstructDistro ==
  /\ pc = "construct"
  /\ install_method # Str("pip")
  /\ installer' = "distro"
  /\ run_user' = ansible_user
  /\ env' = InitialEnv
  /\ pc' = "distro_install"
  /\ UNCHANGED <<cfg, cfg0, err, cmds, installed, i, j, item, names, version>>

\* mutant: the map is replaced by one that holds PATH alone
WithUserSite_DropsHome(e) == << <<<<"PATH">>, Str("<user_base>/bin/")>> >>

\* lines 94-98: PATH is appended to, or set
WithUserSite(e) ==
  LET old_path == Get(e, <<"PATH">>, None)
  IN IF Truthy(old_path)
     THEN Put(e, <<"PATH">>, Str("<old>:<user_base>/bin/"))
     ELSE Put(e, <<"PATH">>, Str("<user_base>/bin/"))

\* lines 190-191, AnsiblePullPip.__init__ and add_pip_install_site_to_path
ConstructPip ==
  /\ pc = "construct"
  /\ install_method = Str("pip")
  /\ installer' = "pip"
  /\ run_user' = ansible_user
  /\ IF Truthy(ansible_user)
     THEN \E ok \in BOOLEAN :
            /\ cmds' = Append(cmds, Command("userbase",
                         <<Word("python"), Word("-c"),
                           Word("import site; print(site.getuserbase())")>>,
                         ansible_user, None, ok, <<>>))
            /\ IF ok
               THEN env' = WithUserSite(InitialEnv) /\ Goto("pip_bootstrap")
               ELSE env' = InitialEnv /\ Raises(ProcessExecutionError)
     ELSE /\ env' = InitialEnv
          /\ Goto("pip_bootstrap")
          /\ cmds' = cmds
  /\ UNCHANGED <<cfg, cfg0, installed, i, j, item, names, version>>

(* ----------------------------- installers ----------------------------- *)
\* bootstrap_pip_if_required, lines 100-104: `import pip` succeeds or the
\* distro installs its pip package
PipBootstrap ==
  /\ pc = "pip_bootstrap"
  /\ \E have_pip \in BOOLEAN :
       IF have_pip
       THEN Goto("pip_is_installed") /\ cmds' = cmds
       ELSE \E ok \in BOOLEAN :
              /\ IssueDirect("pkg_install", <<Word("<pip package>")>>, ok)
              /\ IF ok THEN Goto("pip_is_installed") ELSE Raises(ProcessExecutionError)
  /\ UNCHANGED <<cfg, cfg0, installer, run_user, env, installed, i, j, item, names, version>>

\* AnsiblePullPip.install line 112 with is_installed, lines 151-158
PipIsInstalled ==
  /\ pc = "pip_is_installed"
  /\ \E ok \in BOOLEAN :
       /\ Issue("pip_list", PipListCmd(run_user), None, ok, <<>>)
       /\ IF ok
          THEN Goto(IF installed THEN "check_deps" ELSE "pip_upgrade")
          ELSE Raises(ProcessExecutionError)
  /\ UNCHANGED <<cfg, cfg0, installer, run_user, env, installed, i, j, item, names, version>>

\* __upgrade_pip, lines 134-149: ProcessExecutionError is caught
PipUpgrade ==
  /\ pc = "pip_upgrade"
  /\ \E ext \in BOOLEAN, ok \in BOOLEAN :
       Issue("pip_upgrade", PipBase(ext, run_user) \o <<Word("--upgrade"), Word("pip")>>,
             None, ok, <<>>)
  /\ Goto("pip_install")
  /\ UNCHANGED <<cfg, cfg0, installer, run_user, env, installed, i, j, item, names, version>>

\* lines 130-132; cmd is the list __upgrade_pip was given
PipInstall ==
  /\ pc = "pip_install"
  /\ \E ok \in BOOLEAN :
       /\ LET up == cmds[Len(cmds)].argv
          IN Issue("pip_install",
                   SubSeq(up, 1, Len(up) - 2) \o <<Word(StrOf(package_name))>>,
                   None, ok, <<>>)
       /\ IF ok
          THEN installed' \in BOOLEAN /\ Goto("check_deps")
          ELSE installed' = installed /\ Raises(ProcessExecutionError)
  /\ UNCHANGED <<cfg, cfg0, installer, run_user, env, i, j, item, names, version>>

\* AnsiblePullDistro.install line 167 with is_installed, lines 170-171
DistroIsInstalled ==
  /\ pc = "distro_install"
  /\ IssueDirect("which", <<Word("ansible")>>, TRUE)
  /\ Goto(IF installed THEN "check_deps" ELSE "distro_packages")
  /\ UNCHANGED <<cfg, cfg0, installer, run_user, env, installed, i, j, item, names, version>>

\* line 168
DistroInstall ==
  /\ pc = "distro_packages"
  /\ \E ok \in BOOLEAN :
       /\ IssueDirect("pkg_install", <<Word(StrOf(package_name))>>, ok)
       /\ IF ok
          THEN installed' \in BOOLEAN /\ Goto("check_deps")
          ELSE installed' = installed /\ Raises(ProcessExecutionError)
  /\ UNCHANGED <<cfg, cfg0, installer, run_user, env, i, j, item, names, version>>

NotInstalledError == Raise("ValueError", <<"command: ansible is not installed">>)

\* check_deps, lines 56-58, with the installer's is_installed
CheckDeps ==
  /\ pc = "check_deps"
  /\ IF installer = "pip"
     THEN \E ok \in BOOLEAN :
            /\ Issue("pip_list", PipListCmd(run_user), None, ok, <<>>)
            /\ IF ~ok THEN Raises(ProcessExecutionError)
               ELSE IF ~installed THEN Raises(NotInstalledError)
               ELSE Goto("override")
     ELSE /\ IssueDirect("which", <<Word("ansible")>>, TRUE)
          /\ IF ~installed THEN Raises(NotInstalledError) ELSE Goto("override")
  /\ UNCHANGED <<cfg, cfg0, installer, run_user, env, installed, i, j, item, names, version>>

\* CFG_OVERRIDE, line 28
CFG_OVERRIDE == <<"ansible", "_", "config">>

\* mutant: the galaxy section is passed over
SetConfigOverride_SkipsGalaxy ==
  /\ pc = "override"
  /\ LET ansible_config == Get(cfg, K_ansible_config, Str(""))
     IN env' = IF Truthy(ansible_config) THEN Put(env, CFG_OVERRIDE, ansible_config) ELSE env
  /\ pc' = "pull"
  /\ err' = err
  /\ i' = 1
  /\ UNCHANGED <<cfg, cfg0, cmds, installer, run_user, installed, j, item, names, version>>

\* lines 196-199
SetConfigOverride ==
  /\ pc = "override"
  /\ LET ansible_config == Get(cfg, K_ansible_config, Str(""))
     IN env' = IF Truthy(ansible_config) THEN Put(env, CFG_OVERRIDE, ansible_config) ELSE env
  /\ Goto("galaxy")
  /\ i' = 1
  /\ UNCHANGED <<cfg, cfg0, cmds, installer, run_user, installed, j, item, names, version>>

(* ------------------------------- galaxy ------------------------------- *)
\* lines 201 and 310: the actions to run, none without a galaxy section
GalaxyActions ==
  IF Truthy(galaxy_cfg) THEN Payload(Get(Payload(galaxy_cfg), K_actions, List(<<>>))) ELSE <<>>

\* mutant: a failed galaxy action is ignored
GalaxyAction_IgnoresFailure ==
  /\ pc = "galaxy"
  /\ i <= Len(GalaxyActions)
  /\ \E ok \in BOOLEAN :
       Issue("galaxy", Words(Payload(GalaxyActions[i])), None, ok, <<>>)
  /\ pc' = pc
  /\ err' = err
  /\ i' = i + 1
  /\ UNCHANGED <<cfg, cfg0, installer, run_user, env, installed, j, item, names, version>>

\* lines 314-315: the next action of the galaxy section
GalaxyAction ==
  /\ pc = "galaxy"
  /\ i <= Len(GalaxyActions)
  /\ \E ok \in BOOLEAN :
       /\ Issue("galaxy", Words(Payload(GalaxyActions[i])), None, ok, <<>>)
       /\ IF ok THEN Goto(pc) /\ i' = i + 1
          ELSE Raises(ProcessExecutionError) /\ i' = i
  /\ UNCHANGED <<cfg, cfg0, installer, run_user, env, installed, j, item, names, version>>

\* the galaxy section is absent or exhausted
GalaxyDone ==
  /\ pc = "galaxy"
  /\ i > Len(GalaxyActions)
  /\ Goto("pull")
  /\ i' = 1
  /\ UNCHANGED <<cfg, cfg0, cmds, installer, run_user, env, installed, j, item, names, version>>

(* -------------------------------- pull -------------------------------- *)
\* lines 204-206: the items to run, none without a pull section
PullItems == IF Truthy(pull_cfg) THEN NormalizePull(pull_cfg) ELSE <<>>

\* lines 277-280: the names run_ansible_pull runs
PoppedNames(c) ==
  LET playbook_name == Get(c, K_playbook_name, None)
      playbook_names == Get(Pop(c, K_playbook_name), K_playbook_names, None)
  IN IF Truthy(playbook_name) THEN <<playbook_name>>
     ELSE IF isinstance(playbook_names, "list") THEN Payload(playbook_names)
     ELSE <<>>

\* mutant: the url is popped with the names
PoppedItem_AlsoUrl(c) == Pop(Pop(Pop(c, K_playbook_name), K_playbook_names), K_url)

\* lines 277-278: its copy of the item once both keys are popped
PoppedItem(c) == Pop(Pop(c, K_playbook_name), K_playbook_names)

\* line 282
VersionKnown(v) == v # NoVersion

\* mutant: --diff is refused whatever the version
DiffRejected_AnyVersion(v, c) == Truthy(Get(c, K_diff, None))

\* lines 282-286: the item asks for --diff and the version has none
DiffRejected(v, c) ==
  /\ VersionKnown(v)
  /\ VersionLT(v, DiffMinVersion)
  /\ Truthy(Get(c, K_diff, None))

\* mutant: an unknown version is taken to support several playbooks
Batched_WhenUnknown(v) == ~VersionKnown(v) \/ VersionGE(v, MultiPlaybookMinVersion)

\* line 295
Batched(v) == VersionKnown(v) /\ VersionGE(v, MultiPlaybookMinVersion)

UnsupportedDiff ==
  Raise("ValueError", <<"Ansible version ", "doesn't support --diff flag, exiting.">>)

IndexError == Raise("IndexError", <<"pop from empty list">>)

\* lines 52-54 with 298 and 304
PullArgv(args, playbooks) ==
  <<Word("ansible-pull")>> \o args \o [n \in DOMAIN playbooks |-> Word(Payload(playbooks[n]))]

VersionArgv == <<Word("ansible-pull"), Word("--version")>>

\* lines 207-208 and 277-290: the next pull item is copied, its names are
\* popped, the version is queried and the diff option is checked
PullBegin ==
  /\ pc = "pull"
  /\ i <= Len(PullItems)
  /\ item' = PoppedItem(Payload(PullItems[i]))
  /\ names' = PoppedNames(Payload(PullItems[i]))
  /\ j' = 1
  /\ \/ /\ Issue("version", VersionArgv, None, FALSE, <<>>)
        /\ version' = NoVersion
        /\ Raises(ProcessExecutionError)
     \/ \E out \in VersionOutputs :
          IF out = <<>>
          THEN /\ Issue("version", VersionArgv, None, TRUE, <<>>)
               /\ version' = NoVersion
               /\ Raises(IndexError)
          ELSE /\ version' = ParseVersion(out[1])
               /\ Issue("version", VersionArgv, None, TRUE, version')
               /\ IF DiffRejected(version', item') THEN Raises(UnsupportedDiff)
                  ELSE Goto("pull_invoke")
  /\ UNCHANGED <<cfg, cfg0, installer, run_user, env, installed, i>>

\* lines 295-300: one invocation with every name
PullAll ==
  /\ pc = "pull_invoke"
  /\ Batched(version)
  /\ \E ok \in BOOLEAN :
       /\ Issue("pull", PullArgv(PullArgs(item), names), None, ok, <<>>)
       /\ IF ok THEN Goto("pull") /\ i' = i + 1
          ELSE Raises(ProcessExecutionError) /\ i' = i
  /\ UNCHANGED <<cfg, cfg0, installer, run_user, env, installed, j, item, names, version>>

\* lines 301-306: one invocation for the next name
PullOne ==
  /\ pc = "pull_invoke"
  /\ ~Batched(version)
  /\ j <= Len(names)
  /\ \E ok \in BOOLEAN :
       /\ Issue("pull", PullArgv(PullArgs(item), <<names[j]>>), None, ok, <<>>)
       /\ IF ok THEN Goto(pc) /\ j' = j + 1
          ELSE Raises(ProcessExecutionError) /\ j' = j
  /\ UNCHANGED <<cfg, cfg0, installer, run_user, env, installed, i, item, names, version>>

\* the loop of line 303 is exhausted: run_ansible_pull returns
PullReturn ==
  /\ pc = "pull_invoke"
  /\ ~Batched(version)
  /\ j > Len(names)
  /\ Goto("pull")
  /\ i' = i + 1
  /\ UNCHANGED <<cfg, cfg0, cmds, installer, run_user, env, installed, j, item, names, version>>

\* the pull section is absent or exhausted
PullDone ==
  /\ pc = "pull"
  /\ i > Len(PullItems)
  /\ Goto("clone")
  /\ i' = 1
  /\ UNCHANGED <<cfg, cfg0, cmds, installer, run_user, env, installed, j, item, names, version>>

(* ----------------------------- controller ----------------------------- *)
\* lines 210, 319 and 323: the repositories and run-specs, none without a section
Repositories ==
  IF Truthy(setup_controller)
  THEN Payload(Get(Payload(setup_controller), K_repositories, List(<<>>))) ELSE <<>>

RunAnsible ==
  IF Truthy(setup_controller)
  THEN Payload(Get(Payload(setup_controller), K_run_ansible, List(<<>>))) ELSE <<>>

KeyError(key) == Raise("KeyError", key)

\* lines 319-322: clone the next repository
Clone ==
  /\ pc = "clone"
  /\ i <= Len(Repositories)
  /\ LET repository == Payload(Repositories[i])
     IN IF ~Has(repository, K_source) THEN Raises(KeyError(K_source)) /\ UNCHANGED <<cmds, i>>
        ELSE IF ~Has(repository, K_path) THEN Raises(KeyError(K_path)) /\ UNCHANGED <<cmds, i>>
        ELSE \E ok \in BOOLEAN :
               /\ Issue("clone", <<Word("git"), Word("clone"),
                                   Word(StrOf(Get(repository, K_source, None))),
                                   Word(StrOf(Get(repository, K_path, None)))>>,
                        None, ok, <<>>)
               /\ IF ok THEN Goto(pc) /\ i' = i + 1
                  ELSE Raises(ProcessExecutionError) /\ i' = i
  /\ UNCHANGED <<cfg, cfg0, installer, run_user, env, installed, j, item, names, version>>

\* the loop of line 319 is exhausted, or there is no controller section
CloneDone ==
  /\ pc = "clone"
  /\ i > Len(Repositories)
  /\ Goto("run_ansible")
  /\ i' = 1
  /\ UNCHANGED <<cfg, cfg0, cmds, installer, run_user, env, installed, j, item, names, version>>

\* the configuration with run-spec n of setup_controller replaced by args
WithRunSpec(c, n, args) ==
  LET sc == Payload(Get(c, K_setup_controller, None))
      runs == Payload(Get(sc, K_run_ansible, None))
  IN Put(c, K_setup_controller,
         Dict(Put(sc, K_run_ansible, List([runs EXCEPT ![n] = Dict(args)]))))

\* the command of lines 326-330
PlaybookArgv(playbook_name, args) ==
  <<Word("ansible-playbook"), Word(StrOf(playbook_name))>> \o ControllerArgs(args)

\* lines 323-331: the next run-spec; the pops act on the configuration itself
RunPlaybook ==
  /\ pc = "run_ansible"
  /\ i <= Len(RunAnsible)
  /\ LET args == Payload(RunAnsible[i])
         playbook_dir == Get(args, K_playbook_dir, None)
         args1 == Pop(args, K_playbook_dir)
         playbook_name == Get(args1, K_playbook_name, None)
         args2 == Pop(args1, K_playbook_name)
     IN IF ~Has(args, K_playbook_dir)
        THEN Raises(KeyError(K_playbook_dir)) /\ UNCHANGED <<cfg, cmds, i>>
        ELSE IF ~Has(args1, K_playbook_name)
        THEN /\ Raises(KeyError(K_playbook_name))
             /\ cfg' = WithRunSpec(cfg, i, args1)
             /\ UNCHANGED <<cmds, i>>
        ELSE /\ cfg' = WithRunSpec(cfg, i, args2)
             /\ \E ok \in BOOLEAN :
                  /\ Issue("playbook", PlaybookArgv(playbook_name, args2), playbook_dir, ok, <<>>)
                  /\ IF ok THEN Goto(pc) /\ i' = i + 1
                     ELSE Raises(ProcessExecutionError) /\ i' = i
  /\ UNCHANGED <<cfg0, installer, run_user, env, installed, j, item, names, version>>

\* the loop of line 323 is exhausted: handle returns
Finish ==
  /\ pc = "run_ansible"
  /\ i > Len(RunAnsible)
  /\ Goto("done")
  /\ UNCHANGED <<cfg, cfg0, cmds, installer, run_user, env, installed, i, j, item, names, version>>

(* ------------------- rendering of an option-bag alone ------------------ *)
OptionKeys ==
  { <<"become">>, K_diff, <<"limit">>, <<"module", "_", "path">>, <<"module", "-", "path">> }

OptionValues == { True, False, Str("host1"), IntV("0") }

\* the dicts of at most n options: their keys are distinct
RECURSIVE Bags(_)
Bags(n) ==
  IF n = 0 THEN {<<>>}
  ELSE LET B == Bags(n - 1)
       IN B \cup { Append(b, <<k, v>>) :
                     b \in { c \in B : Len(c) = n - 1 },
                     k \in OptionKeys, v \in OptionValues }

OptionBags == { b \in Bags(MaxOptions) : \A x, y \in DOMAIN b : x # y => b[x][1] # b[y][1] }

InitRender ==
  /\ item \in OptionBags
  /\ names = <<Str("a.yml")>>
  /\ pc = "render"
  /\ cfg = <<>>
  /\ cfg0 = <<>>
  /\ installed = TRUE
  /\ err = NoErr
  /\ cmds = <<>>
  /\ installer = "distro"
  /\ run_user = None
  /\ env = InitialEnv
  /\ i = 1
  /\ j = 1
  /\ version = <<2, 12, 0>>

\* lines 291-298 on an option-bag of its own
RenderPull ==
  /\ pc = "render"
  /\ Issue("pull", PullArgv(PullArgs(item), names), None, TRUE, <<>>)
  /\ Goto("rendered")
  /\ UNCHANGED <<cfg, cfg0, installer, run_user, env, installed, i, j, item, names, version>>

NextRender == RenderPull

SpecRender == InitRender /\ [][NextRender]_vars

Next ==
  \/ HandleEmpty
  \/ Validate
  \/ ConstructDistro
  \/ ConstructPip
  \/ PipBootstrap
  \/ PipIsInstalled
  \/ PipUpgrade
  \/ PipInstall
  \/ DistroIsInstalled
  \/ DistroInstall
  \/ CheckDeps
  \/ SetConfigOverride
  \/ GalaxyAction
  \/ GalaxyDone
  \/ PullBegin
  \/ PullAll
  \/ PullOne
  \/ PullReturn
  \/ PullDone
  \/ Clone
  \/ CloneDone
  \/ RunPlaybook
  \/ Finish

Spec == Init /\ [][Next]_vars

(* ===================================================================== *)
(*                              Properties                               *)
(* ===================================================================== *)
\* handle has gone past its first statement
Started == pc # "start"

Range(f) == { f[n] : n \in DOMAIN f }

Missing(c, key) == ~Has(c, key)

(* C1: every configuration given to handle that lacks install_method or    *)
(* package_name fails validation with an error, and no external command    *)
(* has been issued when the error is raised.                               *)
C1_AsStated ==
  (Started /\ (Missing(cfg0, K_install_method) \/ Missing(cfg0, K_package_name)))
    => (pc = "raised" /\ err.kind = "MissingRequiredKey" /\ cmds = <<>>)

(* C1 as amended: the same for every non-empty configuration; handle       *)
(* returns at once, without validating, when the configuration is empty.   *)
C1_MissingKeyFailsBeforeCommands ==
  /\ (Started /\ cfg0 # <<>>
        /\ (Missing(cfg0, K_install_method) \/ Missing(cfg0, K_package_name)))
       => (pc = "raised" /\ err.kind = "MissingRequiredKey" /\ cmds = <<>>
             /\ installer = "none")
  /\ (Started /\ cfg0 = <<>>) => (pc = "done" /\ err = NoErr /\ cmds = <<>>)

C1_Witness ==
  /\ pc = "raised"
  /\ Has(cfg0, K_install_method)
  /\ Missing(cfg0, K_package_name)
  /\ err.kind = "MissingRequiredKey"
  /\ cmds = <<>>

(* the shape of a pull item, read off the configuration *)
IsMapping(it) == Tag(it) = "dict"
Specifies(it, key) == Has(Payload(it), key) /\ Truthy(Get(Payload(it), key, None))
HasUrl(it) == IsMapping(it) /\ Specifies(it, K_url)
NamesBoth(it) == Specifies(it, K_playbook_name) /\ Specifies(it, K_playbook_names)
NamesNeither(it) == ~Specifies(it, K_playbook_name) /\ ~Specifies(it, K_playbook_names)
NamesOne(it) == ~NamesBoth(it) /\ ~NamesNeither(it)
ItemValid(it) == HasUrl(it) /\ NamesOne(it)

RequiredPresent(c) ==
  /\ Has(c, K_install_method) /\ Truthy(Get(c, K_install_method, None))
  /\ Has(c, K_package_name) /\ Truthy(Get(c, K_package_name, None))

\* the pull section as a list, when it is a mapping or a non-empty list
PullShaped(c) ==
  /\ Has(c, K_pull)
  /\ Tag(Get(c, K_pull, None)) \in {"dict", "list"}
  /\ Truthy(Get(c, K_pull, None))

PullList(c) ==
  IF Tag(Get(c, K_pull, None)) = "dict" THEN <<Get(c, K_pull, None)>>
  ELSE Payload(Get(c, K_pull, None))

PlaybookErrors == {"MutuallyExclusive", "MissingPlaybookNames"}

MentionsText(e, t) == t \in Range(e.msg)

(* C2: validation being at a pull item that has a url (the required keys   *)
(* are present and the items before it are valid): with both playbook_name *)
(* and playbook_names it fails with the "mutually exclusive" error, with   *)
(* neither (or only empty values) with "Missing required key               *)
(* 'playbook_names'", and with exactly one the item raises no playbook     *)
(* error; pull may be one mapping or a list.                               *)
C2_PlaybookKeysExclusive ==
  (Started /\ RequiredPresent(cfg0) /\ PullShaped(cfg0)) =>
    LET items == PullList(cfg0)
    IN /\ \A n \in DOMAIN items :
            (HasUrl(items[n]) /\ \A m \in 1..(n - 1) : ItemValid(items[m])) =>
              /\ NamesBoth(items[n]) =>
                   /\ pc = "raised"
                   /\ err.kind = "MutuallyExclusive"
                   /\ MentionsText(err, " 'ansible.pull.playbook_names' are mutually exclusive.")
              /\ NamesNeither(items[n]) =>
                   /\ pc = "raised"
                   /\ err.kind = "MissingPlaybookNames"
                   /\ err.msg = <<"Missing required key '", "playbook", "_", "names",
                                  "' from ", Repr>>
       /\ (\A n \in DOMAIN items : ItemValid(items[n])) => err.kind \notin PlaybookErrors

C2_Witness ==
  /\ pc = "raised"
  /\ err.kind = "MutuallyExclusive"
  /\ Tag(Get(cfg0, K_pull, None)) = "list"
  /\ Len(PullList(cfg0)) = 2
  /\ ItemValid(PullList(cfg0)[1])
  /\ NamesBoth(PullList(cfg0)[2])

(* the rules of validation, read off the configuration *)
InstallMethodInvalid(c) == Get(c, K_install_method, None) \notin {Str("pip"), Str("distro")}

PullInvalid(c) ==
  /\ Has(c, K_pull)
  /\ Truthy(Get(c, K_pull, None))
  /\ \/ ~PullShaped(c)
     \/ \E n \in DOMAIN PullList(c) : ~ItemValid(PullList(c)[n])

ControllerInvalid(c) ==
  /\ Has(c, K_setup_controller)
  /\ Truthy(Get(c, K_setup_controller, None))
  /\ LET sc == Payload(Get(c, K_setup_controller, None))
     IN ~Truthy(Get(sc, K_repositories, None)) /\ ~Truthy(Get(sc, K_run_ansible, None))

RequiredKeyKinds == {"MissingRequiredKey"}
InstallMethodKinds == {"InvalidInstallMethod"}
PullKinds == {"PullNotDictOrList", "PullItemNotDict", "MissingUrl",
              "MutuallyExclusive", "MissingPlaybookNames"}
ControllerKinds == {"MissingControllerKey"}

Validated == Started /\ cfg0 # <<>>

(* C3: validation reports the first violation in the order rule 1          *)
(* (required keys present and install_method one of pip, distro), rule 2   *)
(* (pull items), rule 3 (setup_controller); a configuration with a bad     *)
(* install_method and a bad pull or setup_controller section fails with    *)
(* the install-method error.                                               *)
C3_AsStated ==
  Validated =>
    /\ (~RequiredPresent(cfg0) \/ InstallMethodInvalid(cfg0))
         => err.kind \in RequiredKeyKinds \cup InstallMethodKinds
    /\ (RequiredPresent(cfg0) /\ InstallMethodInvalid(cfg0)
          /\ (PullInvalid(cfg0) \/ ControllerInvalid(cfg0)))
         => err.kind \in InstallMethodKinds

(* C3 as amended: the order is required keys present, then pull items,     *)
(* then setup_controller, and the value of install_method last; a          *)
(* configuration with a bad install_method and a bad pull or               *)
(* setup_controller section fails with the pull or controller error.       *)
C3_ValidationPrecedence ==
  Validated =>
    /\ ~RequiredPresent(cfg0) => err.kind \in RequiredKeyKinds
    /\ (RequiredPresent(cfg0) /\ PullInvalid(cfg0)) => err.kind \in PullKinds
    /\ (RequiredPresent(cfg0) /\ ~PullInvalid(cfg0) /\ ControllerInvalid(cfg0))
         => err.kind \in ControllerKinds
    /\ (RequiredPresent(cfg0) /\ ~PullInvalid(cfg0) /\ ~ControllerInvalid(cfg0)
          /\ InstallMethodInvalid(cfg0))
         => err.kind \in InstallMethodKinds
    /\ (RequiredPresent(cfg0) /\ ~PullInvalid(cfg0) /\ ~ControllerInvalid(cfg0)
          /\ ~InstallMethodInvalid(cfg0))
         => err.kind \notin (RequiredKeyKinds \cup PullKinds \cup ControllerKinds
                               \cup InstallMethodKinds)

C3_Witness ==
  /\ pc = "raised"
  /\ RequiredPresent(cfg0)
  /\ InstallMethodInvalid(cfg0)
  /\ ~PullInvalid(cfg0)
  /\ ControllerInvalid(cfg0)
  /\ err.kind = "MissingControllerKey"

(* C4: a configuration whose install_method is present but neither "pip"   *)
(* nor "distro", and otherwise valid, fails validation; no installer is    *)
(* constructed, no command runs, and the message names the offending       *)
(* install_method value.                                                   *)
C4_InvalidInstallMethodNamed ==
  (Validated /\ RequiredPresent(cfg0) /\ InstallMethodInvalid(cfg0)
     /\ ~PullInvalid(cfg0) /\ ~ControllerInvalid(cfg0)) =>
       /\ pc = "raised"
       /\ err.kind = "InvalidInstallMethod"
       /\ installer = "none"
       /\ cmds = <<>>
       /\ MentionsText(err, Payload(Get(cfg0, K_install_method, None)))

(* the commands issued, by kind *)
Positions(kind) == { p \in DOMAIN cmds : cmds[p].kind = kind }
Count(kind) == Cardinality(Positions(kind))

\* the position of the n-th command of a kind
NthPosition(kind, n) ==
  CHOOSE p \in Positions(kind) : Cardinality({ q \in Positions(kind) : q <= p }) = n

\* what the claims say of a version triple
Known(v) == v # <<>>
Below(v, major, minor) == v[1] < major \/ (v[1] = major /\ v[2] < minor)
RequestsDiff(it) == Truthy(Get(Payload(it), K_diff, None))

\* get_version has just returned for pull item i
VersionReturned ==
  /\ cmds # <<>>
  /\ cmds[Len(cmds)].kind = "version"
  /\ cmds[Len(cmds)].ok
  /\ err.kind # "IndexError"

DiffRefused ==
  /\ pc = "raised"
  /\ err.kind = "ValueError"
  /\ MentionsText(err, "doesn't support --diff flag, exiting.")

(* C5: a pull item that requests diff is refused with an error, before any *)
(* pull command of the item is issued, exactly when the version is known   *)
(* and below 2.7.0; with a known version of 2.7.0 or more, and with a      *)
(* version that cannot be parsed, the item goes on to issue its pull       *)
(* command.                                                                *)
C5_DiffRefusedBelow270 ==
  VersionReturned =>
    LET v == cmds[Len(cmds)].out
        it == PullList(cfg0)[i]
    IN /\ DiffRefused <=> (RequestsDiff(it) /\ Known(v) /\ Below(v, 2, 7))
       /\ ~DiffRefused => (pc = "pull_invoke" /\ ENABLED (PullAll \/ PullOne))

C5_Witness ==
  /\ VersionReturned
  /\ DiffRefused
  /\ cmds[Len(cmds)].out = <<2, 6, 9>>
  /\ RequestsDiff(PullList(cfg0)[i])

(* the content names of a pull item and its option-bag *)
ContentNames(it) ==
  IF Specifies(it, K_playbook_names) THEN Payload(Get(Payload(it), K_playbook_names, None))
  ELSE <<Get(Payload(it), K_playbook_name, None)>>

OptionBag(it) == Pop(Pop(Payload(it), K_playbook_name), K_playbook_names)

\* run_ansible_pull has returned for pull item n
PullItemReturned(n) ==
  /\ Count("version") >= n
  /\ \/ Count("version") > n
     \/ pc \in {"clone", "run_ansible", "done"}
     \/ pc = "pull" /\ i > n
     \/ Count("clone") + Count("playbook") > 0

\* the pull invocations of item n follow its version query
PullsOf(n) ==
  LET q == NthPosition("version", n)
      last == IF Count("version") > n THEN NthPosition("version", n + 1) - 1 ELSE Len(cmds)
  IN [m \in 1..Cardinality({ p \in Positions("pull") : q < p /\ p <= last }) |-> cmds[q + m]]

(* C6: for a pull item with names n1..nk, once run_ansible_pull has        *)
(* returned: with a version known and at least 2.12.0 it issued exactly    *)
(* one pull invocation, its arguments all flags followed by n1..nk in      *)
(* order; with a version below 2.12.0 or unknown it issued exactly k       *)
(* invocations, one per name in order, each with all flags followed by     *)
(* that name.                                                              *)
C6_BatchedFrom2120 ==
  \A n \in 1..Count("version") :
    PullItemReturned(n) =>
      LET it == PullList(cfg0)[n]
          v == cmds[NthPosition("version", n)].out
          ns == ContentNames(it)
          flags == PullArgs(OptionBag(it))
          pulls == PullsOf(n)
      IN IF Known(v) /\ ~Below(v, 2, 12)
         THEN /\ Len(pulls) = 1
              /\ pulls[1].kind = "pull"
              /\ pulls[1].argv = <<Word("ansible-pull")>> \o flags
                                   \o [m \in DOMAIN ns |-> Word(Payload(ns[m]))]
         ELSE /\ Len(pulls) = Len(ns)
              /\ \A m \in DOMAIN ns :
                   /\ pulls[m].kind = "pull"
                   /\ pulls[m].argv = <<Word("ansible-pull")>> \o flags
                                        \o <<Word(Payload(ns[m]))>>

C6_Witness ==
  /\ pc = "done"
  /\ Count("version") = 2
  /\ cmds[NthPosition("version", 1)].out = <<2, 11, 9>>
  /\ cmds[NthPosition("version", 2)].out = <<2, 12, 0>>
  /\ Len(ContentNames(PullList(cfg0)[1])) = MaxNames
  /\ Len(PullsOf(1)) = MaxNames
  /\ Len(PullsOf(2)) = 1

(* what C7 says an option-bag renders to *)
RECURSIVE KeptOptions(_)
KeptOptions(bag) ==
  IF bag = <<>> THEN <<>>
  ELSE (IF Head(bag)[2] = False THEN <<>> ELSE <<Head(bag)>>) \o KeptOptions(Tail(bag))

Hyphens(key) == [n \in DOMAIN key |-> IF key[n] = "_" THEN "-" ELSE key[n]]

FlagOf(key, value) ==
  IF value = True THEN <<"--">> \o Hyphens(key)
  ELSE <<"--">> \o Hyphens(key) \o <<"=", Payload(value)>>

OneFlagPerOption(bag) ==
  LET kept == KeptOptions(bag)
  IN [n \in DOMAIN kept |-> FlagOf(kept[n][1], kept[n][2])]

\* the flags of the only command rendered: argv without the program and the name
RenderedFlags == SubSeq(cmds[1].argv, 2, Len(cmds[1].argv) - 1)

(* C7: an option whose value is boolean true renders as a bare --key, one  *)
(* whose value is boolean false renders nothing, any other renders as      *)
(* --key=value, underscores in the key become hyphens; the flags keep the  *)
(* order of the option-bag and there is exactly one flag per non-false     *)
(* option.                                                                 *)
C7_AsStated ==
  pc = "rendered" => RenderedFlags = OneFlagPerOption(item)

\* the non-false options whose key, hyphenated, is not that of an earlier one,
\* each with the value of the last option of that hyphenated key
RECURSIVE LastValue(_, _, _)
LastValue(kept, key, value) ==
  IF kept = <<>> THEN value
  ELSE LastValue(Tail(kept), key,
                 IF Hyphens(Head(kept)[1]) = key THEN Head(kept)[2] ELSE value)

RECURSIVE Merged(_, _)
Merged(kept, seen) ==
  IF kept = <<>> THEN <<>>
  ELSE LET key == Hyphens(Head(kept)[1])
       IN IF key \in seen THEN Merged(Tail(kept), seen)
          ELSE <<FlagOf(key, LastValue(kept, key, Head(kept)[2]))>>
                 \o Merged(Tail(kept), seen \cup {key})

Collides(bag) ==
  \E x, y \in DOMAIN bag :
    x # y /\ bag[x][2] # False /\ bag[y][2] # False /\ Hyphens(bag[x][1]) = Hyphens(bag[y][1])

(* C7 as amended: the same, with one flag per non-false option, when no    *)
(* two non-false options have keys that are equal once underscores are     *)
(* hyphens; such options share one flag, at the place of the first of them *)
(* and with the value of the last.                                         *)
C7_FlagRendering ==
  pc = "rendered" =>
    /\ ~Collides(item) => RenderedFlags = OneFlagPerOption(item)
    /\ RenderedFlags = Merged(KeptOptions(item), {})

C7_Witness ==
  /\ pc = "rendered"
  /\ item = << <<<<"become">>, True>>, <<K_diff, False>>, <<<<"limit">>, Str("host1")>> >>
  /\ RenderedFlags = << <<"--", "become">>, <<"--", "limit", "=", "host1">> >>

(* the sections of the configuration as handle was given it *)
Section(key) == Get(cfg0, key, None)
ListOf(section, key) ==
  IF Truthy(section) THEN Payload(Get(Payload(section), key, List(<<>>))) ELSE <<>>

(* C8: the options left in a run-spec once the working directory and the   *)
(* content name are removed are rendered as pull flags are: a bare --key   *)
(* for boolean true (never --key=True), nothing for boolean false,         *)
(* --key=value otherwise, hyphens for underscores; the command is the      *)
(* runner, the content name, then these flags, run in the removed          *)
(* directory.                                                              *)
C8_ControllerFlagsAsPull ==
  \A n \in 1..Count("playbook") :
    LET c == cmds[NthPosition("playbook", n)]
        spec == Payload(ListOf(Section(K_setup_controller), K_run_ansible)[n])
        rest == Pop(Pop(spec, K_playbook_dir), K_playbook_name)
    IN /\ c.argv = <<<<"ansible-playbook">>, <<Payload(Get(spec, K_playbook_name, None))>>>>
                     \o OneFlagPerOption(rest)
       /\ c.cwd = Get(spec, K_playbook_dir, None)

InstallKinds == {"userbase", "pkg_install", "pip_list", "pip_upgrade", "pip_install", "which"}

\* the place of a command in the order of handle
Rank(kind) ==
  CASE kind \in InstallKinds -> 0
    [] kind = "galaxy" -> 1
    [] kind \in {"version", "pull"} -> 2
    [] kind = "clone" -> 3
    [] kind = "playbook" -> 4

WordsOf(l) == [n \in DOMAIN l |-> <<Payload(l[n])>>]

(* C9: on a valid configuration the commands are issued one after another  *)
(* in the order install and dependency check, galaxy actions in the order  *)
(* of `actions`, pull invocations in the order of the pull items,          *)
(* repository clones, controller runs; no pull invocation precedes a       *)
(* galaxy action, no controller command precedes a pull invocation, and a  *)
(* sub-workflow runs only if its section is configured.                    *)
C9_SectionOrder ==
  LET actions == ListOf(Section(K_galaxy), K_actions)
      repos == ListOf(Section(K_setup_controller), K_repositories)
      runs == ListOf(Section(K_setup_controller), K_run_ansible)
      items == IF Truthy(Section(K_pull)) THEN PullList(cfg0) ELSE <<>>
  IN /\ \A p, q \in DOMAIN cmds : p < q => Rank(cmds[p].kind) <= Rank(cmds[q].kind)
     /\ (\E p \in DOMAIN cmds : Rank(cmds[p].kind) > 0) =>
          LET checks == { p \in DOMAIN cmds : Rank(cmds[p].kind) = 0 }
          IN /\ checks # {}
             /\ \A p \in checks : (\A q \in checks : q <= p)
                  => cmds[p].kind \in {"which", "pip_list"}
     /\ Count("galaxy") <= Len(actions)
     /\ \A n \in 1..Count("galaxy") :
          cmds[NthPosition("galaxy", n)].argv = WordsOf(Payload(actions[n]))
     /\ Count("version") <= Len(items)
     /\ \A n \in 1..Count("pull") :
          LET p == NthPosition("pull", n)
              k == Cardinality({ q \in Positions("version") : q < p })
              a == cmds[p].argv
          IN k >= 1 /\ a[Len(a)][1] \in { Payload(x) : x \in Range(ContentNames(items[k])) }
     /\ Count("clone") <= Len(repos)
     /\ \A n \in 1..Count("clone") :
          cmds[NthPosition("clone", n)].argv[3] = <<Payload(Get(Payload(repos[n]), K_source, None))>>
     /\ Count("playbook") <= Len(runs)
     /\ \A n \in 1..Count("playbook") :
          cmds[NthPosition("playbook", n)].argv[2]
            = <<Payload(Get(Payload(runs[n]), K_playbook_name, None))>>
     /\ (pc = "done" /\ cfg0 # <<>>) =>
          /\ Count("galaxy") = Len(actions)
          /\ Count("version") = Len(items)
          /\ Count("pull") >= Len(items)
          /\ Count("clone") = Len(repos)
          /\ Count("playbook") = Len(runs)

C9_Witness ==
  /\ pc = "done"
  /\ Count("galaxy") = MaxActions
  /\ Count("pull") >= 1
  /\ Count("clone") = 1
  /\ Count("playbook") = 1
  /\ Count("pip_install") = 1

(* C10: when an external command fails the error leaves handle and no      *)
(* later command is issued, whether it is a package install, the           *)
(* dependency check finding the tool absent, a galaxy action, the version  *)
(* query, a pull invocation, a clone or a controller run; the one failure  *)
(* that is swallowed is the pip self-upgrade, after which the install of   *)
(* the package is still issued and handle goes on.                         *)
C10_FailFast ==
  /\ \A p \in DOMAIN cmds :
       ~cmds[p].ok =>
         IF cmds[p].kind = "pip_upgrade"
         THEN IF p = Len(cmds) THEN pc = "pip_install" /\ err = NoErr
              ELSE cmds[p + 1].kind = "pip_install"
         ELSE p = Len(cmds) /\ pc = "raised" /\ err.kind = "ProcessExecutionError"
  /\ (err # NoErr) <=> (pc = "raised")
  /\ (pc = "raised" /\ MentionsText(err, "command: ansible is not installed")) =>
       /\ ~installed
       /\ cmds[Len(cmds)].kind \in {"which", "pip_list"}
       /\ \A p \in DOMAIN cmds : Rank(cmds[p].kind) = 0
  /\ pc = "raised" => ~ENABLED Next

C10_Witness ==
  /\ pc = "done"
  /\ \E p \in Positions("pip_upgrade") : ~cmds[p].ok /\ cmds[p + 1].kind = "pip_install"
  /\ Count("playbook") = 1

(* the configuration of C11: the distro installer and one pull item that   *)
(* holds a url and one name, nothing else                                  *)
EndToEndConfig ==
  << <<K_install_method, Str("distro")>>,
     <<K_package_name, Str("ansible")>>,
     <<K_pull, Dict(<< <<K_url, Url>>, <<K_playbook_names, NameList(1)>> >>)>> >>

KindsIssued == [n \in DOMAIN cmds |-> cmds[n].kind]

\* handle has returned on the configuration of C11 with a version from 2.12.0
EndToEndReturned ==
  /\ pc = "done"
  /\ cfg0 = EndToEndConfig
  /\ Count("version") = 1
  /\ Known(cmds[NthPosition("version", 1)].out)
  /\ ~Below(cmds[NthPosition("version", 1)].out, 2, 12)

(* C11: for {install_method: "distro", package_name, pull: {url,           *)
(* playbook_names: [p]}} and a version of 2.12.0 or more, handle issues    *)
(* exactly one install-check, one version query and one pull invocation    *)
(* whose arguments are [p], without flags.                                 *)
C11_AsStated ==
  EndToEndReturned =>
    /\ KindsIssued = <<"which", "version", "pull">>
    /\ cmds[3].argv = <<<<"ansible-pull">>, <<"a.yml">>>>

(* C11 as amended: handle issues an install-check in install and a second  *)
(* one in check_deps, with a package install between them when the first   *)
(* finds the tool absent, then one version query and one pull invocation   *)
(* whose arguments are the flag --url=<url> followed by p.                 *)
C11_EndToEnd ==
  EndToEndReturned =>
    /\ \/ KindsIssued = <<"which", "which", "version", "pull">>
       \/ KindsIssued = <<"which", "pkg_install", "which", "version", "pull">>
    /\ \A n \in DOMAIN cmds : cmds[n].ok
    /\ cmds[Len(cmds)].argv
         = <<<<"ansible-pull">>, <<"--", "url", "=", "https://x">>, <<"a.yml">>>>

C11_Witness ==
  /\ EndToEndReturned
  /\ cmds[NthPosition("version", 1)].out = <<2, 12, 0>>
  /\ KindsIssued = <<"which", "which", "version", "pull">>

EnvKeys(e) == { e[n][1] : n \in DOMAIN e }

\* the steps of the galaxy, pull and controller sub-workflows
SubWorkflowStep ==
  pc \in {"galaxy", "pull", "pull_invoke", "clone", "run_ansible"}

(* C12: from the construction of the installer on, its environment map     *)
(* holds HOME; keys are only added, HOME at construction, then PATH (pip    *)
(* installer with a run-as user only), then the ansible_config key (only    *)
(* when that setting is non-empty); no key is removed, no value of a key    *)
(* present is changed, and no galaxy, pull or controller step writes the    *)
(* map.                                                                     *)
C12_EnvAppendOnly ==
  [][/\ installer' # "none" => Has(env', <<"HOME">>)
     /\ \A k \in EnvKeys(env) : Has(env', k) /\ Get(env', k, None) = Get(env, k, None)
     /\ \A n \in DOMAIN env : env'[n] = env[n]
     /\ EnvKeys(env') \subseteq {<<"HOME">>, <<"PATH">>, CFG_OVERRIDE}
     /\ Has(env', <<"PATH">>) =>
          /\ installer' = "pip" /\ Truthy(Get(cfg0, K_run_user, None))
          /\ IndexOf(env', <<"HOME">>) < IndexOf(env', <<"PATH">>)
     /\ Has(env', CFG_OVERRIDE) =>
          /\ Truthy(Get(cfg0, K_ansible_config, None))
          /\ Get(env', CFG_OVERRIDE, None) = Get(cfg0, K_ansible_config, None)
          /\ IndexOf(env', CFG_OVERRIDE) = Len(env')
     /\ (Has(env', <<"PATH">>) /\ ~Has(env, <<"PATH">>)) => pc = "construct"
     /\ (Has(env', CFG_OVERRIDE) /\ ~Has(env, CFG_OVERRIDE)) => pc = "override"
     /\ SubWorkflowStep => env' = env
    ]_vars

C12_Witness ==
  /\ pc = "done"
  /\ EnvKeys(env) = {<<"HOME">>, <<"PATH">>, CFG_OVERRIDE}
  /\ Count("galaxy") > 0
  /\ Count("pull") > 0
  /\ Count("playbook") > 0

(* C13: handle leaves its configuration as it was: when it returns, every  *)
(* pull item and every run-spec of setup_controller holds the keys and     *)
(* values it held before the call, so that a second call on the same       *)
(* configuration issues the same commands.                                 *)
C13_ConfigUnchanged ==
  pc = "done" =>
    /\ Get(cfg, K_pull, None) = Get(cfg0, K_pull, None)
    /\ Get(cfg, K_setup_controller, None) = Get(cfg0, K_setup_controller, None)

====
